---- MODULE Spec2Model ----
(***************************************************************************)
(* Model of the system monitor's sampling-and-recording engine:            *)
(*   src/system_monitor/app.py            recording session, HTTP handlers *)
(*   src/system_monitor/monitor.py        SystemMonitor (the Sampler)      *)
(*   src/system_monitor/pdf_generator.py  PDFReportGenerator (Aggregator)  *)
(*                                                                         *)
(* Flask runs with threaded=True, so every request handler runs in its own *)
(* thread next to the daemon recording_worker threads.  A handler is       *)
(* modelled statement by statement: one action per source line that reads  *)
(* or writes a module global, so that the interleavings CPython allows     *)
(* between statements are the interleavings of the model.                  *)
(***************************************************************************)
EXTENDS Integers, Sequences, FiniteSets, TLC

\* ---------------------------------------------------------------- constants
RECORDING_DURATION == 300
SLEEP_SECONDS == 1

\* ------------------------------------------------------------------- bounds
\* The clock is observed TicksPerSession times over one RECORDING_DURATION,
\* and MaxTicks times over a run.
TicksPerSession == 2
MaxTicks == 2
ClockStep == RECORDING_DURATION \div TicksPerSession
MaxTime == MaxTicks * ClockStep
\* Request handler threads that may be in flight at once.
NumReq == 2
\* Requests received over a run, and among them start() requests that found
\* the recorder idle (each spawns one worker thread).
MaxRequests == 3
MaxStarts == 2

\* Threads that may be inside get_all_resources at once in the sampler model,
\* and calls made over a run.
NumCallers == 2
MaxCalls == 2
\* Times the OS counters move over a run, and the bytes they move by.
MaxIo == 2
IoBytes == 1572864

Reqs == 1 .. NumReq
Callers == 1 .. NumCallers
Wids == 1 .. MaxStarts

VARIABLES
    now,                  \* time.time() / datetime.now()
    recording,            \* app.py global `recording`
    recorded_data,        \* app.py global `recorded_data` (the current list object)
    recording_start_time, \* app.py global; << >> is None, <<t>> a time
    worker,               \* the recording_worker threads, by the start() that spawned them
    req,                  \* the request handler threads
    nreq,                 \* requests received so far
    last_time,            \* SystemMonitor.last_time
    last_disk_io,         \* SystemMonitor.last_disk_io
    last_net_io,          \* SystemMonitor.last_net_io
    os_disk,              \* psutil.disk_io_counters() as the OS holds them
    os_net,               \* psutil.net_io_counters() as the OS holds them
    smp,                  \* threads inside SystemMonitor.get_all_resources (sampler model)
    ncalls,               \* get_all_resources calls made so far (sampler model)
    nio,                  \* times the OS counters moved so far (sampler model)
    disk_read_at,         \* history: the time at which last_disk_io was read
    net_read_at,          \* history: the time at which last_net_io was read
    stopPhase             \* history: "halted" once a stop() cleared the flag, "returned" once it
                          \* answered 'stopped', "none" again from the next start()

vars == <<now, recording, recorded_data, recording_start_time, worker, req, nreq,
          last_time, last_disk_io, last_net_io, os_disk, os_net, smp, ncalls, nio,
          disk_read_at, net_read_at, stopPhase>>

sessionVars == <<recording, recorded_data, recording_start_time, worker, req, nreq,
                 stopPhase>>
samplerVars == <<last_time, last_disk_io, last_net_io, os_disk, os_net, smp, ncalls, nio,
                 disk_read_at, net_read_at>>

None == << >>

\* A thread that has its answer (a handler at its return, a call of
\* get_all_resources at its return) does nothing more than end, which no
\* other thread can observe: that step is taken first, and every other step
\* is taken when no thread is at that point.
Answering == \E r \in Reqs : req[r].pc = "ret"
Returning == \E c \in Callers : smp[c].pc = "ret"
Quiet == ~Answering /\ ~Returning

\* ------------------------------------------------------------ the Sampler
\* A rate before unit scaling is the exact quotient num/den (den > 0).
ZeroSpeed == [num |-> 0, den |-> 1]

\* Mutant of Speed: the counters are differenced the wrong way round.
SpeedSwapped(current, last, time_diff) ==
    IF time_diff > 0 THEN [num |-> last - current, den |-> time_diff] ELSE ZeroSpeed

\* Mutant of Speed: an elapsed time that is not positive counts as one second.
SpeedFloorsElapsed(current, last, time_diff) ==
    [num |-> current - last, den |-> IF time_diff > 0 THEN time_diff ELSE 1]

\* monitor.py 158-163 and 183-188: (current - last) / time_diff when
\* time_diff > 0, else 0.
Speed(current, last, time_diff) ==
    IF time_diff > 0 THEN [num |-> current - last, den |-> time_diff] ELSE ZeroSpeed

\* Python's round(n / d) for n >= 0, d > 0: to nearest, ties to even.
RoundHalfEven(n, d) ==
    LET q == n \div d
        r == n % d
    IN  IF 2 * r < d THEN q
        ELSE IF 2 * r > d THEN q + 1
        ELSE IF q % 2 = 0 THEN q ELSE q + 1

\* monitor.py 172-173 and 219-220: round(speed / unit, 2), held in hundredths.
Round2(speed, unit) ==
    IF speed.num >= 0
    THEN RoundHalfEven(100 * speed.num, speed.den * unit)
    ELSE 0 - RoundHalfEven(100 * (0 - speed.num), speed.den * unit)

MB == 1048576
KB == 1024

\* monitor.py 158-163: read_speed and write_speed before scaling.
DiskSpeeds(current, last, time_diff) ==
    [read  |-> Speed(current.read_bytes, last.read_bytes, time_diff),
     write |-> Speed(current.write_bytes, last.write_bytes, time_diff)]

\* monitor.py 183-188: bytes_sent_speed and bytes_recv_speed before scaling.
NetSpeeds(current, last, time_diff) ==
    [sent |-> Speed(current.bytes_sent, last.bytes_sent, time_diff),
     recv |-> Speed(current.bytes_recv, last.bytes_recv, time_diff)]

\* monitor.py 167-175: the 'io' part get_disk_info returns (MB/s).
DiskReport(speeds) ==
    [read_speed  |-> Round2(speeds.read, MB),
     write_speed |-> Round2(speeds.write, MB)]

\* monitor.py 214-224: the speeds get_network_info returns (KB/s).
NetReport(speeds) ==
    [bytes_sent_speed |-> Round2(speeds.sent, KB),
     bytes_recv_speed |-> Round2(speeds.recv, KB)]

\* get_all_resources run without interruption: get_disk_info, then
\* get_network_info, both differencing against last_time as it stood on entry.
AllResources(by) ==
    [timestamp |-> now,
     by        |-> by,
     disk      |-> DiskReport(DiskSpeeds(os_disk, last_disk_io, now - last_time)),
     network   |-> NetReport(NetSpeeds(os_net, last_net_io, now - last_time))]

SamplerCommit ==
    /\ last_disk_io' = os_disk
    /\ last_net_io' = os_net
    /\ last_time' = now
    /\ disk_read_at' = now
    /\ net_read_at' = now
    /\ UNCHANGED <<os_disk, os_net, smp, ncalls, nio>>

\* ---- get_all_resources statement by statement (the sampler model)
ZeroDisk == [read_bytes |-> 0, write_bytes |-> 0]
ZeroNet == [bytes_sent |-> 0, bytes_recv |-> 0]
NoSpeeds == << >>

\* A thread inside get_all_resources: its line (pc), the locals current_time,
\* current_disk_io / current_net_io and time_diff, the speeds it computed
\* (before scaling) and the disk and network parts of what it returns.
IdleCall == [pc |-> "idle", current_time |-> 0, current_disk_io |-> ZeroDisk,
             current_net_io |-> ZeroNet, time_diff |-> 0,
             disk_speeds |-> NoSpeeds, net_speeds |-> NoSpeeds,
             disk |-> NoSpeeds, network |-> NoSpeeds]

SetCall(c, rec) == smp' = [smp EXCEPT ![c] = rec]

\* monitor.py 154-156 (get_disk_info, entered from get_all_resources 252):
\* current_time, current_disk_io and time_diff are read.
CallDiskRead(c) ==
    /\ Quiet
    /\ smp[c].pc = "idle"
    /\ \A d \in Callers : d < c => smp[d].pc /= "idle"
    /\ ncalls < MaxCalls
    /\ ncalls' = ncalls + 1
    /\ SetCall(c, [IdleCall EXCEPT !.pc = "d158", !.current_time = now,
                                   !.current_disk_io = os_disk,
                                   !.time_diff = now - last_time])
    /\ UNCHANGED <<last_time, last_disk_io, last_net_io, os_disk, os_net, nio,
                   disk_read_at, net_read_at>>
    /\ UNCHANGED <<now, sessionVars>>

\* monitor.py 158-163: the speeds against self.last_disk_io as it is now
CallDiskSpeed(c) ==
    /\ Quiet
    /\ smp[c].pc = "d158"
    /\ SetCall(c, [smp[c] EXCEPT !.pc = "d165",
                     !.disk_speeds = DiskSpeeds(smp[c].current_disk_io, last_disk_io,
                                                smp[c].time_diff)])
    /\ UNCHANGED <<last_time, last_disk_io, last_net_io, os_disk, os_net, ncalls, nio,
                   disk_read_at, net_read_at>>
    /\ UNCHANGED <<now, sessionVars>>

\* monitor.py 165-175: self.last_disk_io = current_disk_io; the dict is returned
CallDiskStore(c) ==
    /\ Quiet
    /\ smp[c].pc = "d165"
    /\ last_disk_io' = smp[c].current_disk_io
    /\ SetCall(c, [smp[c] EXCEPT !.pc = "n179", !.disk = DiskReport(smp[c].disk_speeds),
                                 !.current_disk_io = ZeroDisk])
    /\ disk_read_at' = smp[c].current_time
    /\ UNCHANGED <<last_time, last_net_io, os_disk, os_net, ncalls, nio, net_read_at>>
    /\ UNCHANGED <<now, sessionVars>>

\* monitor.py 179-181 (get_network_info, get_all_resources 253)
CallNetRead(c) ==
    /\ Quiet
    /\ smp[c].pc = "n179"
    /\ SetCall(c, [smp[c] EXCEPT !.pc = "n183", !.current_time = now,
                                 !.current_net_io = os_net,
                                 !.time_diff = now - last_time])
    /\ UNCHANGED <<last_time, last_disk_io, last_net_io, os_disk, os_net, ncalls, nio,
                   disk_read_at, net_read_at>>
    /\ UNCHANGED <<now, sessionVars>>

\* monitor.py 183-188: the speeds against self.last_net_io as it is now
CallNetSpeed(c) ==
    /\ Quiet
    /\ smp[c].pc = "n183"
    /\ SetCall(c, [smp[c] EXCEPT !.pc = "n190",
                     !.net_speeds = NetSpeeds(smp[c].current_net_io, last_net_io,
                                              smp[c].time_diff)])
    /\ UNCHANGED <<last_time, last_disk_io, last_net_io, os_disk, os_net, ncalls, nio,
                   disk_read_at, net_read_at>>
    /\ UNCHANGED <<now, sessionVars>>

\* monitor.py 190: self.last_net_io = current_net_io
CallNetStore(c) ==
    /\ Quiet
    /\ smp[c].pc = "n190"
    /\ last_net_io' = smp[c].current_net_io
    /\ SetCall(c, [smp[c] EXCEPT !.pc = "n191", !.current_net_io = ZeroNet])
    /\ net_read_at' = smp[c].current_time
    /\ UNCHANGED <<last_time, last_disk_io, os_disk, os_net, ncalls, nio, disk_read_at>>
    /\ UNCHANGED <<now, sessionVars>>

\* monitor.py 191-224: self.last_time = current_time; the dict is returned
CallTimeStore(c) ==
    /\ Quiet
    /\ smp[c].pc = "n191"
    /\ last_time' = smp[c].current_time
    /\ SetCall(c, [smp[c] EXCEPT !.pc = "ret", !.network = NetReport(smp[c].net_speeds),
                                 !.current_time = 0, !.time_diff = 0])
    /\ UNCHANGED <<last_disk_io, last_net_io, os_disk, os_net, ncalls, nio,
                   disk_read_at, net_read_at>>
    /\ UNCHANGED <<now, sessionVars>>

\* get_all_resources returns to its caller.
CallReturn(c) ==
    /\ smp[c].pc = "ret"
    /\ SetCall(c, IdleCall)
    /\ UNCHANGED <<last_time, last_disk_io, last_net_io, os_disk, os_net, ncalls, nio,
                   disk_read_at, net_read_at>>
    /\ UNCHANGED <<now, sessionVars>>

\* The OS counts traffic: one cumulative counter grows.
OsAdvance ==
    /\ Quiet
    /\ nio < MaxIo
    /\ nio' = nio + 1
    /\ \/ os_disk' = [os_disk EXCEPT !.read_bytes = @ + IoBytes] /\ os_net' = os_net
       \/ os_disk' = [os_disk EXCEPT !.write_bytes = @ + IoBytes] /\ os_net' = os_net
       \/ os_net' = [os_net EXCEPT !.bytes_sent = @ + IoBytes] /\ os_disk' = os_disk
       \/ os_net' = [os_net EXCEPT !.bytes_recv = @ + IoBytes] /\ os_disk' = os_disk
    /\ UNCHANGED <<last_time, last_disk_io, last_net_io, smp, ncalls,
                   disk_read_at, net_read_at>>
    /\ UNCHANGED <<now, sessionVars>>

\* A device's cumulative counters wrap around or are reset and count from 0.
OsReset ==
    /\ Quiet
    /\ nio < MaxIo
    /\ nio' = nio + 1
    /\ \/ os_disk /= ZeroDisk /\ os_disk' = ZeroDisk /\ os_net' = os_net
       \/ os_net /= ZeroNet /\ os_net' = ZeroNet /\ os_disk' = os_disk
    /\ UNCHANGED <<last_time, last_disk_io, last_net_io, smp, ncalls,
                   disk_read_at, net_read_at>>
    /\ UNCHANGED <<now, sessionVars>>

\* ------------------------------------------------------ recording_worker
\* A worker thread: its line (pc), its locals start and data, the time its
\* sleep ends (wake), and as history whether a stop() cleared the flag while
\* the thread was alive (halted).
NoWorker == [pc |-> "none", start |-> 0, wake |-> 0, data |-> None, halted |-> FALSE]

SetWorker(w, rec) == worker' = [worker EXCEPT ![w] = rec]

\* app.py 33: start = time.time()
WorkerBegin(w) ==
    /\ Quiet
    /\ worker[w].pc = "w33"
    /\ SetWorker(w, [worker[w] EXCEPT !.pc = "w34", !.start = now])
    /\ UNCHANGED <<now, recording, recorded_data, recording_start_time, req, nreq,
                   stopPhase>>
    /\ UNCHANGED samplerVars

\* Mutant of LoopCondition: the duration limit is not tested.
LoopConditionNoLimit(w) == recording

\* app.py 34: while recording and (time.time() - start) < RECORDING_DURATION
LoopCondition(w) == recording /\ (now - worker[w].start) < RECORDING_DURATION

WorkerCheck(w) ==
    /\ Quiet
    /\ worker[w].pc = "w34"
    /\ SetWorker(w, [worker[w] EXCEPT !.pc = IF LoopCondition(w) THEN "w36" ELSE "w42"])
    /\ UNCHANGED <<now, recording, recorded_data, recording_start_time, req, nreq,
                   stopPhase>>
    /\ UNCHANGED samplerVars

\* app.py 36: data = monitor.get_all_resources()
WorkerSample(w) ==
    /\ Quiet
    /\ worker[w].pc = "w36"
    /\ SetWorker(w, [worker[w] EXCEPT !.pc = "w37", !.data = <<AllResources(w)>>])
    /\ SamplerCommit
    /\ UNCHANGED <<now, recording, recorded_data, recording_start_time, req, nreq,
                   stopPhase>>

\* Mutant of WorkerSampleFails: no try/except, the exception ends the loop.
WorkerSampleFailsFatal(w) ==
    /\ Quiet
    /\ worker[w].pc = "w36"
    /\ SetWorker(w, [worker[w] EXCEPT !.pc = "w42", !.data = None])
    /\ UNCHANGED <<now, recording, recorded_data, recording_start_time, req, nreq,
                   stopPhase>>
    /\ UNCHANGED samplerVars

\* app.py 36, 38: get_all_resources raised and the except clause is entered.
WorkerSampleFails(w) ==
    /\ Quiet
    /\ worker[w].pc = "w36"
    /\ SetWorker(w, [worker[w] EXCEPT !.pc = "w39", !.data = None])
    /\ UNCHANGED <<now, recording, recorded_data, recording_start_time, req, nreq,
                   stopPhase>>
    /\ UNCHANGED samplerVars

\* app.py 39: the error is printed; the tick goes on to the sleep.
WorkerLogError(w) ==
    /\ Quiet
    /\ worker[w].pc = "w39"
    /\ SetWorker(w, [worker[w] EXCEPT !.pc = "w40"])
    /\ UNCHANGED <<now, recording, recorded_data, recording_start_time, req, nreq,
                   stopPhase>>
    /\ UNCHANGED samplerVars

\* app.py 37: recorded_data.append(data)
WorkerAppend(w) ==
    /\ Quiet
    /\ worker[w].pc = "w37"
    /\ recorded_data' = Append(recorded_data, worker[w].data[1])
    /\ SetWorker(w, [worker[w] EXCEPT !.pc = "w40", !.data = None])
    /\ UNCHANGED <<now, recording, recording_start_time, req, nreq, stopPhase>>
    /\ UNCHANGED samplerVars

\* app.py 40: time.sleep(1) is entered ...
WorkerSleep(w) ==
    /\ Quiet
    /\ worker[w].pc = "w40"
    /\ SetWorker(w, [worker[w] EXCEPT !.pc = "asleep", !.wake = now + SLEEP_SECONDS])
    /\ UNCHANGED <<now, recording, recorded_data, recording_start_time, req, nreq,
                   stopPhase>>
    /\ UNCHANGED samplerVars

\* ... and returns once at least a second has passed.
WorkerWake(w) ==
    /\ Quiet
    /\ worker[w].pc = "asleep"
    /\ now >= worker[w].wake
    /\ SetWorker(w, [worker[w] EXCEPT !.pc = "w34", !.wake = 0])
    /\ UNCHANGED <<now, recording, recorded_data, recording_start_time, req, nreq,
                   stopPhase>>
    /\ UNCHANGED samplerVars

\* app.py 42: recording = False, and the thread ends.
WorkerExit(w) ==
    /\ Quiet
    /\ worker[w].pc = "w42"
    /\ recording' = FALSE
    /\ SetWorker(w, [NoWorker EXCEPT !.pc = "done"])
    /\ UNCHANGED <<now, recorded_data, recording_start_time, req, nreq, stopPhase>>
    /\ UNCHANGED samplerVars

\* A worker thread that has been started and has not ended.
Alive(w) == worker[w].pc \notin {"none", "done"}

\* ------------------------------------------------------- request handlers
\* A handler thread: the route it serves (op), the line it is at (pc), the
\* status it answers with (res), and its locals: the worker it is about to
\* spawn (wid), the values of `recording` (act) and len(recorded_data) (cnt)
\* it read, and for a report the list object handed to the generator: the
\* module's current list, or (det) a list that a later start() replaced, whose
\* content (own) no thread can reach any more; n0, n1, n2 are the sample count
\* and the series lengths the generator took from it.
IdleReq == [op |-> "idle", pc |-> "idle", res |-> "", wid |-> 0, act |-> FALSE,
            cnt |-> 0, det |-> FALSE, own |-> << >>, n0 |-> 0, n1 |-> 0, n2 |-> 0,
            built |-> << >>]

SetReq(r, rec) == req' = [req EXCEPT ![r] = rec]

\* A request arrives and Flask dispatches it to a new thread, which runs the
\* handler's first statement.  Threads are interchangeable: a new one takes
\* the lowest free place.
Fresh(r) ==
    /\ nreq < MaxRequests
    /\ req[r].op = "idle"
    /\ \A q \in Reqs : q < r => req[q].op /= "idle"

Goto(r, op, pc) == [req[r] EXCEPT !.op = op, !.pc = pc]

Answer(r, op, status) == [req[r] EXCEPT !.op = op, !.pc = "ret", !.res = status]

\* The response is sent and the thread ends.
Return(r) ==
    /\ req[r].pc = "ret"
    /\ SetReq(r, IdleReq)
    /\ UNCHANGED <<now, recording, recorded_data, recording_start_time, worker, nreq,
                   stopPhase>>
    /\ UNCHANGED samplerVars

\* ---- POST /api/start-recording (app.py 70-89)
\* The start() requests so far that went past the check at line 75.
Started == Cardinality({w \in Wids : worker[w].pc /= "none"})
           + Cardinality({q \in Reqs : req[q].op = "start" /\ req[q].pc /= "ret"})

\* No start() handler is between its arrival and its return.
NoStartInFlight == \A q \in Reqs : req[q].op /= "start"

\* Mutant of StartCheck: the check of `recording` at line 75 is missing.
StartCheckBlind(r) ==
    /\ Quiet
    /\ Fresh(r)
    /\ nreq' = nreq + 1
    /\ Started < MaxStarts
    /\ SetReq(r, [Goto(r, "start", "s78") EXCEPT !.wid = Started + 1])
    /\ stopPhase' = "none"
    /\ UNCHANGED <<now, recording, recorded_data, recording_start_time, worker>>
    /\ UNCHANGED samplerVars

\* app.py 75-76: if recording: return already_recording
StartCheck(r) ==
    /\ Quiet
    /\ Fresh(r)
    /\ nreq' = nreq + 1
    /\ recording \/ Started < MaxStarts
    /\ SetReq(r, IF recording THEN Answer(r, "start", "already_recording")
                 ELSE [Goto(r, "start", "s78") EXCEPT !.wid = Started + 1])
    /\ stopPhase' = "none"
    /\ UNCHANGED <<now, recording, recorded_data, recording_start_time, worker>>
    /\ UNCHANGED samplerVars

\* app.py 78: recording = True
StartSetFlag(r) ==
    /\ Quiet
    /\ req[r].pc = "s78"
    /\ recording' = TRUE
    /\ SetReq(r, Goto(r, "start", "s79"))
    /\ UNCHANGED <<now, recorded_data, recording_start_time, worker, nreq, stopPhase>>
    /\ UNCHANGED samplerVars

\* The list a report's generator holds: the one passed at app.py 128.
Holds(q) == req[q].pc \in {"g177", "g205", "g211"} /\ ~req[q].det

\* app.py 79: recorded_data = [] binds the global to a new list; a generator
\* that was handed the old list keeps it, and nothing appends to it again.
StartClear(r) ==
    /\ Quiet
    /\ req[r].pc = "s79"
    /\ recorded_data' = << >>
    /\ req' = [q \in Reqs |->
                 IF q = r THEN Goto(r, "start", "s80")
                 ELSE IF Holds(q) THEN [req[q] EXCEPT !.det = TRUE, !.own = recorded_data]
                 ELSE req[q]]
    /\ UNCHANGED <<now, recording, recording_start_time, worker, nreq, stopPhase>>
    /\ UNCHANGED samplerVars

\* app.py 80: recording_start_time = datetime.now()
StartStamp(r) ==
    /\ Quiet
    /\ req[r].pc = "s80"
    /\ recording_start_time' = <<now>>
    /\ SetReq(r, Goto(r, "start", "s82"))
    /\ UNCHANGED <<now, recording, recorded_data, worker, nreq, stopPhase>>
    /\ UNCHANGED samplerVars

\* app.py 82-89: the worker thread is created and started; 'started' is returned.
StartSpawn(r) ==
    /\ Quiet
    /\ req[r].pc = "s82"
    /\ SetWorker(req[r].wid, [NoWorker EXCEPT !.pc = "w33"])
    /\ SetReq(r, Answer(r, "start", "started"))
    /\ UNCHANGED <<now, recording, recorded_data, recording_start_time, nreq, stopPhase>>
    /\ UNCHANGED samplerVars

\* ---- POST /api/stop-recording (app.py 92-105)
\* Mutant of StopCheck: the check of `recording` at line 97 is missing.
StopCheckBlind(r) ==
    /\ Quiet
    /\ Fresh(r)
    /\ nreq' = nreq + 1
    /\ SetReq(r, Goto(r, "stop", "p100"))
    /\ UNCHANGED <<now, recording, recorded_data, recording_start_time, worker, stopPhase>>
    /\ UNCHANGED samplerVars

\* app.py 97-98: if not recording: return not_recording
StopCheck(r) ==
    /\ Quiet
    /\ Fresh(r)
    /\ nreq' = nreq + 1
    /\ SetReq(r, IF ~recording THEN Answer(r, "stop", "not_recording")
                 ELSE Goto(r, "stop", "p100"))
    /\ UNCHANGED <<now, recording, recorded_data, recording_start_time, worker, stopPhase>>
    /\ UNCHANGED samplerVars

\* app.py 100: recording = False
StopClearFlag(r) ==
    /\ Quiet
    /\ req[r].pc = "p100"
    /\ recording' = FALSE
    /\ SetReq(r, Goto(r, "stop", "p102"))
    /\ stopPhase' = "halted"
    /\ worker' = [w \in Wids |-> IF Alive(w) THEN [worker[w] EXCEPT !.halted = TRUE]
                                 ELSE worker[w]]
    /\ UNCHANGED <<now, recorded_data, recording_start_time, nreq>>
    /\ UNCHANGED samplerVars

\* app.py 102-105: return stopped, samples = len(recorded_data)
StopAnswer(r) ==
    /\ Quiet
    /\ req[r].pc = "p102"
    /\ SetReq(r, [Answer(r, "stop", "stopped") EXCEPT !.cnt = Len(recorded_data)])
    /\ stopPhase' = IF stopPhase = "halted" THEN "returned" ELSE stopPhase
    /\ UNCHANGED <<now, recording, recorded_data, recording_start_time, worker, nreq>>
    /\ UNCHANGED samplerVars

\* ---- GET /api/recording-status (app.py 162-169)
\* app.py 165: 'recording': recording
StatusReadFlag(r) ==
    /\ Quiet
    /\ Fresh(r)
    /\ nreq' = nreq + 1
    /\ SetReq(r, [Goto(r, "status", "q167") EXCEPT !.act = recording])
    /\ UNCHANGED <<now, recording, recorded_data, recording_start_time, worker, stopPhase>>
    /\ UNCHANGED samplerVars

\* Mutant of StatusAnswer: the sample count is stated only while recording.
StatusAnswerIdleZero(r) ==
    /\ Quiet
    /\ req[r].pc = "q167"
    /\ SetReq(r, [Answer(r, "status", "status") EXCEPT
                     !.cnt = IF recording THEN Len(recorded_data) ELSE 0])
    /\ UNCHANGED <<now, recording, recorded_data, recording_start_time, worker, nreq,
                   stopPhase>>
    /\ UNCHANGED samplerVars

\* app.py 166-169: 'samples': len(recorded_data), 'start_time': ...
StatusAnswer(r) ==
    /\ Quiet
    /\ req[r].pc = "q167"
    /\ SetReq(r, [Answer(r, "status", "status") EXCEPT !.cnt = Len(recorded_data)])
    /\ UNCHANGED <<now, recording, recorded_data, recording_start_time, worker, nreq,
                   stopPhase>>
    /\ UNCHANGED samplerVars

\* ---- GET /api/resources (app.py 51-67)
\* app.py 55: data = monitor.get_all_resources()
LiveSample(r) ==
    /\ Quiet
    /\ Fresh(r)
    /\ nreq' = nreq + 1
    /\ SetReq(r, Goto(r, "live", "v56"))
    /\ SamplerCommit
    /\ UNCHANGED <<now, recording, recorded_data, recording_start_time, worker, stopPhase>>

\* app.py 66-67: get_all_resources raised; the handler answers 500.
LiveSampleFails(r) ==
    /\ Quiet
    /\ Fresh(r)
    /\ nreq' = nreq + 1
    /\ SetReq(r, Answer(r, "live", "error"))
    /\ UNCHANGED <<now, recording, recorded_data, recording_start_time, worker, stopPhase>>
    /\ UNCHANGED samplerVars

\* app.py 56-65: data['recording'] = recording, data['recorded_count'] =
\* len(recorded_data), the elapsed and remaining seconds, and the response.
\* These lines only read the globals into the response.
LiveAnswer(r) ==
    /\ Quiet
    /\ req[r].pc = "v56"
    /\ SetReq(r, Answer(r, "live", "live"))
    /\ UNCHANGED <<now, recording, recorded_data, recording_start_time, worker, nreq,
                   stopPhase>>
    /\ UNCHANGED samplerVars

\* ---- POST /api/generate-report (app.py 108-139)
\* app.py 113-114: if len(recorded_data) < 2: return 400
ReportPrecheck(r) ==
    /\ Quiet
    /\ Fresh(r)
    /\ nreq' = nreq + 1
    /\ SetReq(r, IF Len(recorded_data) < 2 THEN Answer(r, "report", "not_enough_data")
                 ELSE Goto(r, "report", "r123"))
    /\ UNCHANGED <<now, recording, recorded_data, recording_start_time, worker, stopPhase>>
    /\ UNCHANGED samplerVars

\* app.py 123-128: recorded_data[0], recorded_data[-1] (on an empty list the
\* IndexError is caught at 136-139 and answered 500), then
\* generator.generate_report(recorded_data, ...) is entered with the list the
\* global names at this moment.
ReportCall(r) ==
    /\ Quiet
    /\ req[r].pc = "r123"
    /\ SetReq(r, IF Len(recorded_data) = 0 THEN Answer(r, "report", "error")
                 ELSE Goto(r, "report", "g177"))
    /\ UNCHANGED <<now, recording, recorded_data, recording_start_time, worker, nreq,
                   stopPhase>>
    /\ UNCHANGED samplerVars

\* The content of the list the generator of request r was handed.
Held(r) == IF req[r].det THEN req[r].own ELSE recorded_data

\* pdf_generator.py 155-177: generate_report has no length check of its own;
\* it states len(recorded_data) as the sample count.
GenCount(r) ==
    /\ Quiet
    /\ req[r].pc = "g177"
    /\ SetReq(r, [req[r] EXCEPT !.pc = "g205", !.n0 = Len(Held(r))])
    /\ UNCHANGED <<now, recording, recorded_data, recording_start_time, worker, nreq,
                   stopPhase>>
    /\ UNCHANGED samplerVars

\* pdf_generator.py 205-209: the cpu, memory and network series
GenSeriesCpu(r) ==
    /\ Quiet
    /\ req[r].pc = "g205"
    /\ SetReq(r, [req[r] EXCEPT !.pc = "g211", !.n1 = Len(Held(r))])
    /\ UNCHANGED <<now, recording, recorded_data, recording_start_time, worker, nreq,
                   stopPhase>>
    /\ UNCHANGED samplerVars

\* pdf_generator.py 211-225 and app.py 130-135: the disk, gpu and temperature
\* series; the document is built from the series and the handler answers
\* success.
GenSeriesDisk(r) ==
    /\ Quiet
    /\ req[r].pc = "g211"
    /\ SetReq(r, [Answer(r, "report", "success") EXCEPT
                     !.n2 = Len(Held(r)), !.det = FALSE, !.own = << >>])
    /\ UNCHANGED <<now, recording, recorded_data, recording_start_time, worker, nreq,
                   stopPhase>>
    /\ UNCHANGED samplerVars

\* ---- PDFReportGenerator on a given buffer (pdf_generator.py 144-283)
\* Values are held in hundredths, the precision of round(x, 2).  An optional
\* value is << >> (None) or <<v>>.
RECURSIVE Sum(_)
Sum(data_list) ==
    IF data_list = << >> THEN 0 ELSE Head(data_list) + Sum(Tail(data_list))

Smallest(data_list) ==
    CHOOSE x \in {data_list[i] : i \in 1 .. Len(data_list)} :
        \A i \in 1 .. Len(data_list) : x <= data_list[i]

Largest(data_list) ==
    CHOOSE x \in {data_list[i] : i \in 1 .. Len(data_list)} :
        \A i \in 1 .. Len(data_list) : x >= data_list[i]

\* Mutant of CalculateStatistics: the average is cut off, not rounded.
CalculateStatisticsTruncated(data_list) ==
    IF data_list = << >> THEN [avg |-> 0, min |-> 0, max |-> 0]
    ELSE [avg |-> Sum(data_list) \div Len(data_list),
          min |-> Smallest(data_list),
          max |-> Largest(data_list)]

\* pdf_generator.py 144-153: _calculate_statistics
CalculateStatistics(data_list) ==
    IF data_list = << >> THEN [avg |-> 0, min |-> 0, max |-> 0]
    ELSE [avg |-> RoundHalfEven(Sum(data_list), Len(data_list)),
          min |-> Smallest(data_list),
          max |-> Largest(data_list)]

\* `x or 0` (pdf_generator.py 222, 225)
OrZero(x) == IF x = None THEN 0 ELSE x[1]

\* pdf_generator.py 218-219: the samples whose gpu record lists a GPU
HasGpus(d) == d.gpu.gpus /= << >>

\* pdf_generator.py 217: the first sample reports GPU availability
FirstSampleHasGpu(data) == data /= << >> /\ data[1].gpu.available

\* pdf_generator.py 217-219: the samples the GPU series are taken from
GpuSamples(data) ==
    IF FirstSampleHasGpu(data) THEN SelectSeq(data, HasGpus) ELSE << >>

\* pdf_generator.py 177 and 205-283: the sample count, the series and the
\* statistics generate_report takes from the buffer.
GenerateReport(data) ==
    LET cpu_data == [i \in 1 .. Len(data) |-> data[i].cpu.percent]
        cpu_temp_data == [i \in 1 .. Len(data) |-> OrZero(data[i].cpu.temperature)]
        from == GpuSamples(data)
        gpu_load == [i \in 1 .. Len(from) |-> from[i].gpu.gpus[1].load]
        gpu_temp == [i \in 1 .. Len(from) |-> OrZero(from[i].gpu.gpus[1].temperature)]
        gpu_memory == [i \in 1 .. Len(from) |-> from[i].gpu.gpus[1].memory_percent]
    IN  [count |-> Len(data),
         cpu_data |-> cpu_data,
         cpu_temp_data |-> cpu_temp_data,
         gpu_load |-> gpu_load,
         gpu_temp |-> gpu_temp,
         gpu_memory |-> gpu_memory,
         cpu_stats |-> CalculateStatistics(cpu_data),
         gpu_section |-> gpu_load /= << >>,
         gpu_load_stats |-> IF gpu_load /= << >> THEN CalculateStatistics(gpu_load) ELSE None,
         gpu_temp_stats |-> IF gpu_load /= << >> THEN CalculateStatistics(gpu_temp) ELSE None,
         gpu_mem_stats |-> IF gpu_load /= << >> THEN CalculateStatistics(gpu_memory) ELSE None]

\* generator.generate_report(recorded_data, ...) run on the buffer as it is.
Build(r) ==
    /\ Quiet
    /\ Fresh(r)
    /\ nreq' = nreq + 1
    /\ SetReq(r, [Answer(r, "build", "built") EXCEPT !.built = GenerateReport(recorded_data)])
    /\ UNCHANGED <<now, recording, recorded_data, recording_start_time, worker, stopPhase>>
    /\ UNCHANGED samplerVars

\* ------------------------------------------------------------------ clock
Tick ==
    /\ Quiet
    /\ now + ClockStep <= MaxTime
    /\ now' = now + ClockStep
    /\ UNCHANGED sessionVars
    /\ UNCHANGED samplerVars

\* ------------------------------------------------------- the session model
\* app.py 21-25 and SystemMonitor.__init__ (monitor.py 27-30)
InitOther ==
    /\ now = 0
    /\ recording = FALSE
    /\ recording_start_time = None
    /\ worker = [w \in Wids |-> NoWorker]
    /\ req = [r \in Reqs |-> IdleReq]
    /\ nreq = 0
    /\ stopPhase = "none"
    /\ os_disk = ZeroDisk
    /\ os_net = ZeroNet
    /\ last_disk_io = ZeroDisk
    /\ last_net_io = ZeroNet
    /\ last_time = 0
    /\ smp = [c \in Callers |-> IdleCall]
    /\ ncalls = 0
    /\ nio = 0
    /\ disk_read_at = 0
    /\ net_read_at = 0

Init ==
    /\ recorded_data = << >>
    /\ InitOther

WorkerStep(w) ==
    \/ WorkerBegin(w)
    \/ WorkerCheck(w)
    \/ WorkerSample(w)
    \/ WorkerSampleFails(w)
    \/ WorkerLogError(w)
    \/ WorkerAppend(w)
    \/ WorkerSleep(w)
    \/ WorkerWake(w)
    \/ WorkerExit(w)

StartStep(r) ==
    \/ StartCheck(r)
    \/ StartSetFlag(r)
    \/ StartClear(r)
    \/ StartStamp(r)
    \/ StartSpawn(r)

StopStep(r) ==
    \/ StopCheck(r)
    \/ StopClearFlag(r)
    \/ StopAnswer(r)

StatusStep(r) ==
    \/ StatusReadFlag(r)
    \/ StatusAnswer(r)

LiveStep(r) ==
    \/ LiveSample(r)
    \/ LiveSampleFails(r)
    \/ LiveAnswer(r)

ReportStep(r) ==
    \/ ReportPrecheck(r)
    \/ ReportCall(r)
    \/ GenCount(r)
    \/ GenSeriesCpu(r)
    \/ GenSeriesDisk(r)

Next ==
    \/ \E r \in Reqs : Return(r)
    \/ Tick
    \/ \E w \in Wids : WorkerStep(w)
    \/ \E r \in Reqs : StartStep(r)
    \/ \E r \in Reqs : StopStep(r)
    \/ \E r \in Reqs : StatusStep(r)
    \/ \E r \in Reqs : LiveStep(r)
    \/ \E r \in Reqs : ReportStep(r)

Spec == Init /\ [][Next]_vars

\* ------------------------------------------------------- the sampler model
\* Threads calling monitor.get_all_resources() on the one SystemMonitor (the
\* recording worker at app.py 36 and /api/resources handlers at app.py 55)
\* while the clock and the OS counters move.
CallStep(c) ==
    \/ CallDiskRead(c)
    \/ CallDiskSpeed(c)
    \/ CallDiskStore(c)
    \/ CallNetRead(c)
    \/ CallNetSpeed(c)
    \/ CallNetStore(c)
    \/ CallTimeStore(c)

NextSampler ==
    \/ \E c \in Callers : CallReturn(c)
    \/ Tick
    \/ OsAdvance
    \/ \E c \in Callers : CallStep(c)

\* Cumulative counters that never decrease.
SpecSampler == Init /\ [][NextSampler]_vars

\* Successive calls, one at a time, over counters that may also wrap around
\* or be reset.
CallDiskReadAlone(c) ==
    /\ \A d \in Callers : smp[d].pc = "idle"
    /\ CallDiskRead(c)

CallStepAlone(c) ==
    \/ CallDiskReadAlone(c)
    \/ CallDiskSpeed(c)
    \/ CallDiskStore(c)
    \/ CallNetRead(c)
    \/ CallNetSpeed(c)
    \/ CallNetStore(c)
    \/ CallTimeStore(c)

NextWrap ==
    \/ \E c \in Callers : CallReturn(c)
    \/ Tick
    \/ OsAdvance
    \/ OsReset
    \/ \E c \in Callers : CallStepAlone(c)

SpecWrap == Init /\ [][NextWrap]_vars

\* Successive calls of get_all_resources, and of its two rate methods on
\* their own: get_disk_info returns after line 165-175 without entering
\* get_network_info, and get_network_info is entered at line 179 directly.
DiskOnlyReturn(c) ==
    /\ Quiet
    /\ smp[c].pc = "n179"
    /\ SetCall(c, IdleCall)
    /\ UNCHANGED <<last_time, last_disk_io, last_net_io, os_disk, os_net, ncalls, nio,
                   disk_read_at, net_read_at>>
    /\ UNCHANGED <<now, sessionVars>>

NetOnlyRead(c) ==
    /\ Quiet
    /\ \A d \in Callers : smp[d].pc = "idle"
    /\ \A d \in Callers : d >= c
    /\ ncalls < MaxCalls
    /\ ncalls' = ncalls + 1
    /\ SetCall(c, [IdleCall EXCEPT !.pc = "n183", !.current_time = now,
                                   !.current_net_io = os_net,
                                   !.time_diff = now - last_time])
    /\ UNCHANGED <<last_time, last_disk_io, last_net_io, os_disk, os_net, nio,
                   disk_read_at, net_read_at>>
    /\ UNCHANGED <<now, sessionVars>>

NextEpoch ==
    \/ \E c \in Callers : CallReturn(c)
    \/ Tick
    \/ OsAdvance
    \/ \E c \in Callers : CallStepAlone(c)
    \/ \E c \in Callers : DiskOnlyReturn(c)
    \/ \E c \in Callers : NetOnlyRead(c)

SpecEpoch == Init /\ [][NextEpoch]_vars

\* Successive calls under a wall clock (time.time) that is also set back.
TickBack ==
    /\ Quiet
    /\ now >= ClockStep
    /\ now' = now - ClockStep
    /\ UNCHANGED sessionVars
    /\ UNCHANGED samplerVars

NextClock ==
    \/ \E c \in Callers : CallReturn(c)
    \/ Tick
    \/ TickBack
    \/ OsAdvance
    \/ \E c \in Callers : CallStepAlone(c)

SpecClock == Init /\ [][NextClock]_vars

\* ------------------------------------------------------ the report model
\* The generator run on the buffers an ended session can leave behind: up to
\* MaxSamples samples, each with a CPU reading whose temperature may be
\* missing and a GPU record that lists no GPU (GPUtil failed, or found
\* none), one or two.
MaxSamples == 3

Percents == {1000, 1010, 2000, 3000}
CpuTemperatures == {None, <<4500>>}
FirstGpus == {[load |-> 5000, memory_percent |-> 2500, temperature |-> t] :
                t \in {None, <<7000>>}}
SecondGpu == [load |-> 9000, memory_percent |-> 9000, temperature |-> <<9000>>]
GpuRecords ==
    {[available |-> FALSE, gpus |-> << >>], [available |-> TRUE, gpus |-> << >>]}
    \cup {[available |-> TRUE, gpus |-> <<g>>] : g \in FirstGpus}
    \cup {[available |-> TRUE, gpus |-> <<g, SecondGpu>>] : g \in FirstGpus}
Samples ==
    {[cpu |-> [percent |-> p, temperature |-> t], gpu |-> g] :
        p \in Percents, t \in CpuTemperatures, g \in GpuRecords}
Buffers == UNION {[1 .. n -> Samples] : n \in 1 .. MaxSamples}

InitReport ==
    /\ recorded_data \in Buffers
    /\ InitOther

NextReport ==
    \/ \E r \in Reqs : Return(r)
    \/ \E r \in Reqs : Build(r)

SpecReport == InitReport /\ [][NextReport]_vars

\* -------------------------------------------------------- the expiry model
\* Clients that send start() requests and never a stop(); every thread that
\* can run does run in the end, and the clock keeps going.  Past MaxTime the
\* clock is followed only as far as a sleeping worker waits for it.
Horizon == MaxTime + MaxStarts * RECORDING_DURATION

TickLate ==
    /\ Quiet
    /\ now + ClockStep > MaxTime
    /\ now + ClockStep <= Horizon
    /\ \E w \in Wids : Alive(w)
    /\ \A w \in Wids : Alive(w) => (worker[w].pc = "asleep" /\ worker[w].wake > now)
    /\ NoStartInFlight
    /\ now' = now + ClockStep
    /\ UNCHANGED sessionVars
    /\ UNCHANGED samplerVars

NextExpiry ==
    \/ \E r \in Reqs : Return(r)
    \/ Tick
    \/ TickLate
    \/ \E w \in Wids : WorkerStep(w)
    \/ \E r \in Reqs : StartStep(r)

\* Handler threads in flight run to their end (a client need not send a
\* request: StartCheck on a fresh thread is under no fairness).
HandlerRuns(r) ==
    \/ Return(r)
    \/ StartSetFlag(r)
    \/ StartClear(r)
    \/ StartStamp(r)
    \/ StartSpawn(r)

SpecExpiry ==
    /\ Init
    /\ [][NextExpiry]_vars
    /\ WF_vars(Tick \/ TickLate)
    /\ \A w \in Wids : WF_vars(WorkerStep(w))
    /\ \A r \in Reqs : WF_vars(HandlerRuns(r))

\* ================================================================= claims
\* Worker w is inside a tick that its own check of the loop condition admitted.
InTick(w) == worker[w].pc \in {"w36", "w37"}

\* C1: at most one background recording loop is alive and appending to the
\* buffer, under any interleaving of start(), stop() and loop ticks.
C1_AtMostOneLoop == Cardinality({w \in Wids : InTick(w)}) <= 1

\* C2: start() while Recording answers 'already recording' and leaves the
\* buffer, startedAt, the flag and every loop as they are; no loop is scheduled.
C2_StartWhileRecording ==
    [][\A r \in Reqs :
         (Fresh(r) /\ recording /\ req'[r].op = "start")
         => /\ req'[r].res = "already_recording"
            /\ req'[r].pc = "ret"
            /\ UNCHANGED <<recorded_data, recording_start_time, recording, worker>>]_vars

C2_Witness ==
    \E r \in Reqs : /\ req[r].op = "start"
                    /\ req[r].res = "already_recording"
                    /\ recording
                    /\ Len(recorded_data) > 0

\* C3: once stop() has returned on a Recording session, no sample is appended
\* to the buffer before the next start().
C3_NoAppendAfterStop ==
    [][(stopPhase = "returned" /\ NoStartInFlight)
       => Len(recorded_data') <= Len(recorded_data)]_vars

\* C6: stop() when not Recording answers 'not recording' and changes nothing;
\* before any start() the flag is false and the buffer is empty.
C6_StopWhenIdle ==
    /\ [][\A r \in Reqs :
            (Fresh(r) /\ ~recording /\ req'[r].op = "stop")
            => /\ req'[r].res = "not_recording"
               /\ req'[r].pc = "ret"
               /\ UNCHANGED <<recorded_data, recording_start_time, recording, worker>>]_vars
    /\ [](Started = 0 => (~recording /\ recorded_data = << >>))

C6_Witness ==
    \E r \in Reqs : /\ req[r].op = "stop"
                    /\ req[r].res = "not_recording"
                    /\ Started = 0
                    /\ Len(recorded_data) = 0

\* C7: a tick whose sample() raises appends nothing and leaves the session
\* Recording; the loop goes on to its sleep and then to the next tick's check,
\* without sampling again in between.
C7_FailedTickSkipped ==
    [][\A w \in Wids :
         /\ (worker[w].pc = "w36" /\ worker'[w].pc \notin {"w36", "w37"})
            => /\ worker'[w].pc = "w39"
               /\ UNCHANGED <<recorded_data, recording>>
         /\ (worker[w].pc = "w39" /\ worker'[w].pc /= "w39")
            => /\ worker'[w].pc = "w40"
               /\ UNCHANGED <<recorded_data, recording>>
         /\ (worker[w].pc = "w40" /\ worker'[w].pc /= "w40") => worker'[w].pc = "asleep"
         /\ (worker[w].pc = "asleep" /\ worker'[w].pc /= "asleep")
            => worker'[w].pc = "w34"]_vars

C7_Witness ==
    \E w \in Wids : worker[w].pc = "w39" /\ recording /\ Len(recorded_data) > 0

\* C9: after a session has ended (the flag is false and no start() is being
\* handled) the buffer keeps exactly the samples it held until the next
\* start().
C9_BufferKeptAfterSession ==
    [][(Started > 0 /\ ~recording /\ NoStartInFlight)
       => recorded_data' = recorded_data]_vars

\* The thread holds the disk part, the network part of what it returns.
HasDisk(c) == smp[c].pc \in {"n179", "n183", "n190", "n191", "ret"}
HasNetwork(c) == smp[c].pc = "ret"

\* C4: with OS counters that never decrease, every disk and network rate
\* reported by concurrent sample() calls on the shared Sampler is
\* non-negative.
C4_RatesNonNegative ==
    \A c \in Callers :
        /\ HasDisk(c) => (smp[c].disk.read_speed >= 0 /\ smp[c].disk.write_speed >= 0)
        /\ HasNetwork(c) => /\ smp[c].network.bytes_sent_speed >= 0
                            /\ smp[c].network.bytes_recv_speed >= 0

\* C10: when the current cumulative counter is below the previous one
\* (wraparound or reset), the reported rate is clamped to 0, never negative.
C10_WrapClampsToZero ==
    \A c \in Callers :
        /\ HasDisk(c) =>
             /\ smp[c].disk_speeds.read.num < 0 => smp[c].disk.read_speed = 0
             /\ smp[c].disk_speeds.write.num < 0 => smp[c].disk.write_speed = 0
        /\ HasNetwork(c) =>
             /\ smp[c].net_speeds.sent.num < 0 => smp[c].network.bytes_sent_speed = 0
             /\ smp[c].net_speeds.recv.num < 0 => smp[c].network.bytes_recv_speed = 0

\* The generator of request r has stated its sample count (pdf_generator.py 177).
Counted(r) ==
    /\ req[r].op = "report"
    /\ req[r].pc \in {"g205", "g211"} \/ req[r].res = "success"

\* C8: the Aggregator builds no report, not even a partial one, from a buffer
\* of length 0 or 1, whatever the orchestrating layer checked before.
C8_NoReportBelowTwoSamples == \A r \in Reqs : Counted(r) => req[r].n0 >= 2

\* C5: when stop() is never called, a recording loop ends once
\* RECORDING_DURATION has elapsed since it started: a tick that begins at or
\* after the limit samples nothing and leaves the loop, the loop's exit sets
\* the flag to false, and every loop does end with the recorder idle.
C5_Expiry ==
    /\ [][\A w \in Wids :
            /\ (/\ worker[w].pc = "w34"
                /\ worker'[w].pc /= "w34"
                /\ now - worker[w].start >= RECORDING_DURATION)
               => (worker'[w].pc = "w42" /\ recorded_data' = recorded_data)
            /\ (worker[w].pc = "w42" /\ worker'[w].pc /= "w42")
               => (worker'[w].pc = "done" /\ ~recording')]_vars
    /\ \A w \in Wids : Alive(w) ~> (worker[w].pc = "done" /\ ~recording)

\* A loop leaves at the limit while the flag is still set.
C5_Witness ==
    \E w \in Wids : /\ worker[w].pc = "w42"
                    /\ recording
                    /\ now - worker[w].start >= RECORDING_DURATION
                    /\ Len(recorded_data) > 0

\* C11: in successive samples with elapsed time > 0, each rate before unit
\* scaling is (current counter - previous counter) / elapsed, the value
\* reported is that rate scaled and rounded, and it is non-negative whenever
\* the current counter is not below the previous one.
C11_RateFormula ==
    \A c \in Callers :
        /\ (smp[c].pc = "d165" /\ smp[c].time_diff > 0) =>
             /\ smp[c].disk_speeds.read.num
                  = smp[c].current_disk_io.read_bytes - last_disk_io.read_bytes
             /\ smp[c].disk_speeds.write.num
                  = smp[c].current_disk_io.write_bytes - last_disk_io.write_bytes
             /\ smp[c].disk_speeds.read.den = smp[c].time_diff
             /\ smp[c].disk_speeds.write.den = smp[c].time_diff
        /\ (smp[c].pc = "n190" /\ smp[c].time_diff > 0) =>
             /\ smp[c].net_speeds.sent.num
                  = smp[c].current_net_io.bytes_sent - last_net_io.bytes_sent
             /\ smp[c].net_speeds.recv.num
                  = smp[c].current_net_io.bytes_recv - last_net_io.bytes_recv
             /\ smp[c].net_speeds.sent.den = smp[c].time_diff
             /\ smp[c].net_speeds.recv.den = smp[c].time_diff
        /\ HasDisk(c) =>
             /\ smp[c].disk.read_speed = Round2(smp[c].disk_speeds.read, MB)
             /\ smp[c].disk.write_speed = Round2(smp[c].disk_speeds.write, MB)
             /\ smp[c].disk_speeds.read.num >= 0 => smp[c].disk.read_speed >= 0
             /\ smp[c].disk_speeds.write.num >= 0 => smp[c].disk.write_speed >= 0
        /\ HasNetwork(c) =>
             /\ smp[c].network.bytes_sent_speed = Round2(smp[c].net_speeds.sent, KB)
             /\ smp[c].network.bytes_recv_speed = Round2(smp[c].net_speeds.recv, KB)
             /\ smp[c].net_speeds.sent.num >= 0 => smp[c].network.bytes_sent_speed >= 0
             /\ smp[c].net_speeds.recv.num >= 0 => smp[c].network.bytes_recv_speed >= 0

\* A call holds a positive rate over a positive elapsed time.
C11_Witness ==
    \E c \in Callers : /\ smp[c].pc = "d165"
                       /\ smp[c].time_diff > 0
                       /\ smp[c].current_disk_io.read_bytes > last_disk_io.read_bytes
                       /\ smp[c].disk_speeds.read.num > 0

\* C12: when the elapsed time since the previous sample is <= 0 (first
\* sample, clock not advanced or set back) every rate is 0, and last_disk_io,
\* last_net_io and last_time are still overwritten with the current values.
C12_NoElapsedGivesZero ==
    /\ [](\A c \in Callers :
            /\ (smp[c].pc = "d165" /\ smp[c].time_diff <= 0)
               => (smp[c].disk_speeds.read = ZeroSpeed /\ smp[c].disk_speeds.write = ZeroSpeed)
            /\ (smp[c].pc = "n179" /\ smp[c].time_diff <= 0)
               => (smp[c].disk.read_speed = 0 /\ smp[c].disk.write_speed = 0)
            /\ (smp[c].pc \in {"n190", "n191"} /\ smp[c].time_diff <= 0)
               => (smp[c].net_speeds.sent = ZeroSpeed /\ smp[c].net_speeds.recv = ZeroSpeed))
    /\ [][\A c \in Callers :
            /\ (smp[c].pc = "d165" /\ smp'[c].pc = "n179")
               => last_disk_io' = smp[c].current_disk_io
            /\ (smp[c].pc = "n190" /\ smp'[c].pc = "n191")
               => last_net_io' = smp[c].current_net_io
            /\ (smp[c].pc = "n191" /\ smp'[c].pc = "ret")
               => /\ last_time' = smp[c].current_time
                  /\ smp[c].time_diff <= 0
                     => /\ smp'[c].network.bytes_sent_speed = 0
                        /\ smp'[c].network.bytes_recv_speed = 0]_vars

\* A call finds the clock set back and counters that have moved.
C12_Witness ==
    \E c \in Callers : /\ smp[c].pc = "d165"
                       /\ smp[c].time_diff < 0
                       /\ smp[c].current_disk_io /= last_disk_io

\* C18: in every rate computation the previous counters and the previous
\* time that are differenced were recorded by the same earlier sample: the
\* time a disk rate divides by runs from the read of last_disk_io, the time a
\* network rate divides by from the read of last_net_io.
C18_SameEpoch ==
    \A c \in Callers :
        /\ (smp[c].pc = "d165" /\ smp[c].time_diff > 0)
           => smp[c].current_time - smp[c].time_diff = disk_read_at
        /\ (smp[c].pc = "n190" /\ smp[c].time_diff > 0)
           => smp[c].current_time - smp[c].time_diff = net_read_at

\* C17: a report is built from a closed buffer: every series extracted for
\* one report has the length of the sample count that report states, so no
\* loop appended to the buffer while the series were being extracted.
C17_ClosedBuffer ==
    \A r \in Reqs :
        req[r].op = "report" =>
            /\ req[r].pc = "g211" => req[r].n1 = req[r].n0
            /\ req[r].res = "success" => (req[r].n1 = req[r].n0 /\ req[r].n2 = req[r].n0)

\* C16: status() is read-only in every state and beside a running loop: its
\* steps change none of the flag, the buffer, the start time and the loops;
\* the flag it returns is the flag as it read it and the sample count it
\* returns is the length of the buffer as it read it during the call.
C16_StatusReadOnly ==
    [][\A r \in Reqs :
         (req'[r].op = "status" /\ req'[r] /= req[r])
         => /\ UNCHANGED <<recording, recorded_data, recording_start_time, worker>>
            /\ req'[r].pc = "q167" => req'[r].act = recording
            /\ req'[r].pc = "ret" => (req'[r].cnt = Len(recorded_data) /\ req'[r].act = req[r].act)]_vars

\* status() has answered with the samples of a stopped session whose loop
\* is still alive.
C16_Witness ==
    \E r \in Reqs : /\ req[r].op = "status"
                    /\ req[r].pc = "ret"
                    /\ req[r].cnt > 0
                    /\ ~recording
                    /\ \E w \in Wids : Alive(w)

\* A report has been built.
Built(r) == req[r].op = "build" /\ req[r].pc = "ret"

\* The values of a sequence.
Range(data_list) == {data_list[i] : i \in 1 .. Len(data_list)}

Present(temps) ==
    LET there == SelectSeq(temps, LAMBDA t : t /= None)
    IN  [i \in 1 .. Len(there) |-> there[i][1]]

\* C14: a sample whose optional field is absent contributes no value to that
\* field's series: the CPU and GPU temperature series hold exactly the
\* temperatures that are present, no GPU series holds a value for a sample
\* without GPU record, and the GPU temperature statistic is taken over the
\* temperatures that are present.
C14_AbsentExcluded ==
    \A r \in Reqs :
        Built(r) =>
            LET data == recorded_data
                from == SelectSeq(data, HasGpus)
                cpu_temps == Present([i \in 1 .. Len(data) |-> data[i].cpu.temperature])
                gpu_temps == Present([i \in 1 .. Len(from) |-> from[i].gpu.gpus[1].temperature])
            IN  /\ req[r].built.cpu_temp_data = cpu_temps
                /\ Len(req[r].built.gpu_load) <= Len(from)
                /\ req[r].built.gpu_section =>
                     /\ req[r].built.gpu_temp = gpu_temps
                     /\ req[r].built.gpu_temp_stats = CalculateStatistics(gpu_temps)

\* C15: the GPU statistics are computed whenever any sample of the buffer
\* reports GPU availability (and lists a GPU), and each sample that lists GPUs contributes the
\* load, memory% and temperature of its first listed GPU only.
C15_GpuWheneverAvailable ==
    \A r \in Reqs :
        Built(r) =>
            LET data == recorded_data
                from == SelectSeq(data, HasGpus)
            IN  /\ req[r].built.gpu_section
                     <=> \E i \in 1 .. Len(data) : data[i].gpu.available /\ HasGpus(data[i])
                /\ req[r].built.gpu_section =>
                     /\ req[r].built.gpu_load
                          = [i \in 1 .. Len(from) |-> from[i].gpu.gpus[1].load]
                     /\ req[r].built.gpu_memory
                          = [i \in 1 .. Len(from) |-> from[i].gpu.gpus[1].memory_percent]
                     /\ req[r].built.gpu_load_stats = CalculateStatistics(req[r].built.gpu_load)
                     /\ req[r].built.gpu_mem_stats = CalculateStatistics(req[r].built.gpu_memory)

\* The session that start() number v opened is under way: its flag is set
\* (app.py 78) and its loop has not ended.
SessionActive(v) ==
    \/ Alive(v)
    \/ \E q \in Reqs : /\ req[q].op = "start"
                       /\ req[q].wid = v
                       /\ req[q].pc \in {"s79", "s80", "s82"}

\* C19: a loop whose session was stopped (worker[w].halted) leaves at its
\* next check of the flag, also when a new start() came in between, and so
\* never goes on to sample for a later session.
C19_StoppedLoopEnds ==
    [][\A w \in Wids :
         (worker[w].halted /\ worker[w].pc = "w34" /\ worker'[w].pc /= "w34")
         => worker'[w].pc = "w42"]_vars

\* C20: a loop that was started for an earlier session never clears the flag
\* of a later session when it exits.
C20_ExitClearsOwnFlagOnly ==
    [][\A w \in Wids :
         (worker[w].pc = "w42" /\ worker'[w].pc = "done" /\ recording)
         => ~ \E v \in Wids : v > w /\ SessionActive(v)]_vars

\* C21: the buffer is in chronological order in every reachable state
\* (sample timestamps never decrease along it), and a step either leaves its
\* elements where they are, appends at its end, or is the clear of start().
C21_Chronological ==
    /\ [](\A i, j \in 1 .. Len(recorded_data) :
            i < j => recorded_data[i].timestamp <= recorded_data[j].timestamp)
    /\ [][\/ /\ Len(recorded_data') >= Len(recorded_data)
             /\ SubSeq(recorded_data', 1, Len(recorded_data)) = recorded_data
          \/ /\ recorded_data' = << >>
             /\ \E r \in Reqs : req[r].pc = "s79" /\ req'[r].pc = "s80"]_vars

\* C22: of two start() requests that interleave from Idle only one gets past
\* the check at line 75: the other answers 'already recording', so the buffer
\* is cleared once and the start time is set once.  Two handlers that are both
\* between the check and line 78 have both read recording = False, and each
\* goes on to clear, stamp, spawn and answer 'started'.
C22_OneStartWins ==
    \A r, q \in Reqs :
        r /= q => ~(/\ req[r].op = "start" /\ req[r].pc = "s78"
                    /\ req[q].op = "start" /\ req[q].pc = "s78")

\* The most samples one loop can append (durationLimit / cadence): an
\* iteration starts only while less than RECORDING_DURATION has elapsed
\* (line 34), and two iterations are at least one sleep apart (line 40), which
\* on this clock is one ClockStep: the sleep ends with the next tick.
SamplesPerSession == RECORDING_DURATION \div ClockStep

\* C23: in every reachable state the buffer holds at most durationLimit /
\* cadence samples: one session never yields more than that.
C23_AtMostLimit == Len(recorded_data) <= SamplesPerSession

\* C24: the recorder is Idle or Recording and nothing else.  A start() that
\* arrives while the flag is false passes the check, and when it answers
\* (no stop() having come in meanwhile, no other start() being served) the
\* flag is set, the buffer is empty,
\* the start time is set and exactly one loop is scheduled; a stop() and a
\* loop's exit at expiry each leave the flag false, so that the next start()
\* passes the check again.
C24_SessionMachine ==
    [][/\ \A r \in Reqs :
            (req[r].op = "idle" /\ req'[r].op = "start" /\ ~recording)
            => req'[r].pc = "s78"
       /\ \A r \in Reqs :
            (/\ req[r].pc = "s82" /\ req'[r].pc = "ret"
             /\ stopPhase = "none"
             /\ \A q \in Reqs : q /= r => req[q].op /= "start")
            => /\ req'[r].res = "started"
               /\ recording'
               /\ recorded_data' = << >>
               /\ recording_start_time' /= None
               /\ Cardinality({w \in Wids : worker'[w].pc \notin {"none", "done"}}) = 1
       /\ \A r \in Reqs :
            (req[r].pc = "p100" /\ req'[r].pc = "p102") => ~recording'
       /\ \A w \in Wids :
            (worker[w].pc = "w42" /\ worker'[w].pc = "done") => ~recording']_vars

====
